---- MODULE Spec2Model ----
(***************************************************************************)
(* Rooms / students JSON repositories (students_rooms/repositories.py),    *)
(* the request handlers that call them (students_rooms/views.py) and the   *)
(* combiner.  Each collection is one JSON file holding an array of flat    *)
(* records; every repository call re-reads the whole file, changes the     *)
(* array in memory and writes the whole file back.                         *)
(***************************************************************************)
EXTENDS Integers, Sequences, FiniteSets, TLC

VARIABLES repo,          \* sequential use: the repository object the caller holds
          roomsFile,     \* content of settings.JSON_ROOMS_PATH
          studentsFile,  \* content of settings.JSON_STUDENTS_PATH
          last,          \* the repository call that completed last, with its result
          createdIds,    \* history: ids returned by create, per collection
          pc,            \* concurrent callers: position inside the repository call
          loc            \* concurrent callers: local variables of the call

vars == <<repo, roomsFile, studentsFile, last, createdIds, pc, loc>>

----------------------------------------------------------------------------
(* Bounds and input domains *)

MaxId == 2

\* longest collection / filter handed to the query operations
MaxLen == 2

Names == {"a", "b"}

Ids == 0 .. MaxId

\* room ids a caller passes as a student's room
RoomRefs == {0, 2}

\* extra keys of a persisted student record (sex, birthday); NoExtra = none
NoExtra == "none"

SomeExtra == "sex=M,birthday=2004-01-07T00:00:00.000000"

----------------------------------------------------------------------------
(* Optional values and sequence helpers *)

None == <<>>

Some(x) == <<x>>

\* the elements of s that satisfy Keep, in their order (a list comprehension)
Filter(s, Keep(_)) == SelectSeq(s, Keep)

MaxOf(S) == CHOOSE m \in S : \A x \in S : x <= m

IdsOf(items) == {items[i].id : i \in DOMAIN items}

\* index of the first record of items whose id is id, 0 when there is none
FirstIndex(items, id) ==
    IF \E i \in DOMAIN items : items[i].id = id
    THEN CHOOSE i \in DOMAIN items :
            /\ items[i].id = id
            /\ \A j \in 1 .. (i - 1) : items[j].id # id
    ELSE 0

----------------------------------------------------------------------------
(* JsonFileRepositoryMixin: the file and its two operations *)

FileOk(items) == [st |-> "ok", items |-> items]

\* no file at the path
FileMissing == [st |-> "missing", items |-> <<>>]

\* a file whose text is not a JSON document
FileCorrupt == [st |-> "corrupt", items |-> <<>>]

\* a file opened with mode "w" (truncated) whose dump has not completed
FilePartial == [st |-> "partial", items |-> <<>>]

\* mutant: JSONDecodeError caught like FileNotFoundError, reading as []
FileReadCorruptAsEmpty(f) ==
    [raised |-> FALSE, items |-> IF f.st = "ok" THEN f.items ELSE <<>>]

\* _read: FileNotFoundError -> [], JSONDecodeError -> RepositoryError
FileRead(f) ==
    CASE f.st = "ok"      -> [raised |-> FALSE, items |-> f.items]
      [] f.st = "missing" -> [raised |-> FALSE, items |-> <<>>]
      [] OTHER            -> [raised |-> TRUE,  items |-> <<>>]

\* _write, run to completion: the file holds exactly items
FileWrite(items) == FileOk(items)

----------------------------------------------------------------------------
(* Room / Student dataclasses *)

Room(r) == [id |-> r.id, name |-> r.name]

Student(s) == [id |-> s.id, name |-> s.name, room |-> s.room]

----------------------------------------------------------------------------
(* JsonRoomsRepository, on the list read from the file *)

RoomsList(rooms) == [i \in DOMAIN rooms |-> Room(rooms[i])]

RoomsGet(rooms, room_id) ==
    LET i == FirstIndex(rooms, room_id)
    IN  IF i = 0 THEN None ELSE Some(Room(rooms[i]))

\* mutant: the next id taken from the number of records
RoomsNextIdByCount(rooms) == Len(rooms) + 1

RoomsNextId(rooms) ==
    (IF rooms = <<>> THEN 0 ELSE MaxOf(IdsOf(rooms))) + 1

\* create: the new record and the list that is written
RoomsCreateRecord(rooms, name) == [id |-> RoomsNextId(rooms), name |-> name]

\* mutant: the new record is never appended to the list that is written
RoomsCreateItemsNotAppended(rooms, name) == rooms

\* mutant: the new record inserted at the head of the list (rooms.insert(0, ...))
RoomsCreateItemsPrepended(rooms, name) == <<RoomsCreateRecord(rooms, name)>> \o rooms

RoomsCreateItems(rooms, name) == Append(rooms, RoomsCreateRecord(rooms, name))

\* mutant: the record taken out and the renamed one appended at the end
RoomsUpdateItemsMovedLast(rooms, room_id, name) ==
    LET Keep(r) == r.id # room_id
    IN  IF FirstIndex(rooms, room_id) = 0 THEN rooms
        ELSE Append(Filter(rooms, Keep), [id |-> room_id, name |-> name])

\* update: the first record with the id gets the name, in place
RoomsUpdateItems(rooms, room_id, name) ==
    LET i == FirstIndex(rooms, room_id)
    IN  IF i = 0 THEN rooms ELSE [rooms EXCEPT ![i].name = name]

\* delete: every record with the id is dropped
RoomsDeleteItems(rooms, room_id) ==
    LET Keep(r) == r.id # room_id IN Filter(rooms, Keep)

----------------------------------------------------------------------------
(* JsonStudentsRepository, on the list read from the file *)

\* an optional filter: absent (None) or an iterable of integers
NoFilter == [given |-> FALSE, vals |-> <<>>]

FilterOf(vals) == [given |-> TRUE, vals |-> vals]

\* set(int(i) for i in vals)
SetOf(vals) == {vals[i] : i \in DOMAIN vals}

\* mutant: the filters tested for truth ("if ids_in:") instead of "is not None"
StudentsListTruthiness(students, ids_in, room_in) ==
    LET KeepId(s) == s.id \in SetOf(ids_in.vals)
        KeepRoom(s) == s.room \in SetOf(room_in.vals)
        items1 == IF ids_in.given /\ ids_in.vals # <<>>
                  THEN Filter(students, KeepId) ELSE students
        items2 == IF room_in.given /\ room_in.vals # <<>>
                  THEN Filter(items1, KeepRoom) ELSE items1
    IN  [i \in DOMAIN items2 |-> Student(items2[i])]

\* mutant: the room filter applied to the list read, dropping the id filter
StudentsListRoomOverrides(students, ids_in, room_in) ==
    LET KeepId(s) == s.id \in SetOf(ids_in.vals)
        KeepRoom(s) == s.room \in SetOf(room_in.vals)
        items1 == IF ids_in.given THEN Filter(students, KeepId) ELSE students
        items2 == IF room_in.given THEN Filter(students, KeepRoom) ELSE items1
    IN  [i \in DOMAIN items2 |-> Student(items2[i])]

StudentsList(students, ids_in, room_in) ==
    LET KeepId(s) == s.id \in SetOf(ids_in.vals)
        KeepRoom(s) == s.room \in SetOf(room_in.vals)
        items1 == IF ids_in.given THEN Filter(students, KeepId) ELSE students
        items2 == IF room_in.given THEN Filter(items1, KeepRoom) ELSE items1
    IN  [i \in DOMAIN items2 |-> Student(items2[i])]

StudentsGet(students, student_id) ==
    LET i == FirstIndex(students, student_id)
    IN  IF i = 0 THEN None ELSE Some(Student(students[i]))

\* mutant: the next id taken from the number of records
StudentsNextIdByCount(students) == Len(students) + 1

StudentsNextId(students) ==
    (IF students = <<>> THEN 0 ELSE MaxOf(IdsOf(students))) + 1

\* mutant: the new id stored as the room of the record
StudentsCreateRecordRoomFromId(students, name, room) ==
    [id |-> StudentsNextId(students), name |-> name,
     room |-> StudentsNextId(students), extra |-> NoExtra]

StudentsCreateRecord(students, name, room) ==
    [id |-> StudentsNextId(students), name |-> name, room |-> room,
     extra |-> NoExtra]

StudentsCreateItems(students, name, room) ==
    Append(students, StudentsCreateRecord(students, name, room))

\* mutant: the "is not None" tests dropped, an omitted room stored as null (-1)
StudentsUpdateItemsOverwritesOmitted(students, student_id, name, room) ==
    LET i == FirstIndex(students, student_id)
    IN  IF i = 0 THEN students
        ELSE [students EXCEPT
                ![i].name = IF name # None THEN name[1] ELSE @,
                ![i].room = IF room # None THEN room[1] ELSE -1]

\* mutant: the matching dict replaced by one built from id, name and room
StudentsUpdateItemsRebuilt(students, student_id, name, room) ==
    LET i == FirstIndex(students, student_id)
    IN  IF i = 0 THEN students
        ELSE [students EXCEPT
                ![i] = [id |-> @.id,
                        name |-> IF name # None THEN name[1] ELSE @.name,
                        room |-> IF room # None THEN room[1] ELSE @.room,
                        extra |-> NoExtra]]

\* update: name and room are optional (None = keep the stored value)
StudentsUpdateItems(students, student_id, name, room) ==
    LET i == FirstIndex(students, student_id)
    IN  IF i = 0 THEN students
        ELSE [students EXCEPT
                ![i].name = IF name # None THEN name[1] ELSE @,
                ![i].room = IF room # None THEN room[1] ELSE @]

\* mutant: the comparison inverted, keeping the records of the id
StudentsDeleteItemsInverted(students, student_id) ==
    LET Keep(s) == s.id = student_id IN Filter(students, Keep)

StudentsDeleteItems(students, student_id) ==
    LET Keep(s) == s.id # student_id IN Filter(students, Keep)

----------------------------------------------------------------------------
(* DataCombiner and JsonDataLoader *)

\* room_dict is an insertion-ordered dict: a key that is already present keeps
\* its position and gets the new value
DictPut(d, entry) ==
    IF \E i \in DOMAIN d : d[i].id = entry.id
    THEN [i \in DOMAIN d |-> IF d[i].id = entry.id THEN entry ELSE d[i]]
    ELSE Append(d, entry)

RECURSIVE RoomDict(_, _)
\* {room['id']: {'id', 'name', 'students': []} for room in rooms[1..n]}
RoomDict(rooms, n) ==
    IF n = 0 THEN <<>>
    ELSE DictPut(RoomDict(rooms, n - 1),
                 [id |-> rooms[n].id, name |-> rooms[n].name, students |-> <<>>])

\* mutant: every entry of room_dict shares one students list
AddStudentSharedList(d, student) ==
    IF \E i \in DOMAIN d : d[i].id = student.room
    THEN [i \in DOMAIN d |->
            [d[i] EXCEPT !.students =
                Append(@, [id |-> student.id, name |-> student.name])]]
    ELSE d

\* if room_id in room_dict: room_dict[room_id]['students'].append({id, name})
AddStudent(d, student) ==
    [i \in DOMAIN d |->
        IF d[i].id = student.room
        THEN [d[i] EXCEPT !.students =
                Append(@, [id |-> student.id, name |-> student.name])]
        ELSE d[i]]

RECURSIVE AddStudents(_, _, _)
AddStudents(d, students, n) ==
    IF n = 0 THEN d
    ELSE AddStudent(AddStudents(d, students, n - 1), students[n])

\* combine: list(room_dict.values())
Combine(rooms, students) ==
    AddStudents(RoomDict(rooms, Len(rooms)), students, Len(students))

\* JsonDataLoader.load: open and json.load, with no except clause
LoaderLoad(f) ==
    IF f.st = "ok" THEN [raised |-> FALSE, items |-> f.items]
    ELSE [raised |-> TRUE, items |-> <<>>]

----------------------------------------------------------------------------
(* StudentViewSet.list: the ids__in / room__in query parameters *)

\* a query parameter is absent, or a string: the sequence of the pieces
\* between its commas (the empty string is the one empty piece)
NoParam == [given |-> FALSE, toks |-> <<>>]

ParamOf(toks) == [given |-> TRUE, toks |-> toks]

\* if ids_in: (None and "" are false)
Truthy(param) == param.given /\ param.toks # <<"">>

\* x.strip() is non-empty
NonBlank(tok) == tok \notin {"", " "}

\* int(x)
IntOf(tok) ==
    CASE tok = "0" -> 0
      [] tok = "1" -> 1
      [] tok = "2" -> 2
      [] tok = "3" -> 3

IsInt(tok) == tok \in {"0", "1", "2", "3"}

\* [int(x) for x in param.split(",") if x.strip()] if param else None
ParseParam(param) ==
    LET kept == Filter(param.toks, NonBlank)
    IN  IF ~Truthy(param) THEN [raised |-> FALSE, filter |-> NoFilter]
        ELSE IF \E i \in DOMAIN kept : ~IsInt(kept[i])
             THEN [raised |-> TRUE, filter |-> NoFilter]
             ELSE [raised |-> FALSE,
                   filter |-> FilterOf([i \in DOMAIN kept |-> IntOf(kept[i])])]

----------------------------------------------------------------------------
(* One repository call run to completion by a single caller:               *)
(* [file: the file afterwards, ret: what is returned, raised, wrote]       *)

Raised(f) == [file |-> f, ret |-> None, ok |-> FALSE, raised |-> TRUE, wrote |-> FALSE]

Returned(f, ret, ok, wrote) ==
    [file |-> f, ret |-> ret, ok |-> ok, raised |-> FALSE, wrote |-> wrote]

RoomsCreateCall(f, name) ==
    LET rd == FileRead(f)
    IN  IF rd.raised THEN Raised(f)
        ELSE Returned(FileWrite(RoomsCreateItems(rd.items, name)),
                      Some(Room(RoomsCreateRecord(rd.items, name))), TRUE, TRUE)

RoomsUpdateCall(f, room_id, name) ==
    LET rd == FileRead(f)
        new == RoomsUpdateItems(rd.items, room_id, name)
    IN  IF rd.raised THEN Raised(f)
        ELSE IF FirstIndex(rd.items, room_id) = 0
             THEN Returned(f, None, FALSE, FALSE)
             ELSE Returned(FileWrite(new), RoomsGet(new, room_id), TRUE, TRUE)

\* mutant: delete without the length comparison, writing and returning True
RoomsDeleteCallUnchecked(f, room_id) ==
    LET rd == FileRead(f)
    IN  IF rd.raised THEN Raised(f)
        ELSE Returned(FileWrite(RoomsDeleteItems(rd.items, room_id)), None, TRUE, TRUE)

RoomsDeleteCall(f, room_id) ==
    LET rd == FileRead(f)
        new_rooms == RoomsDeleteItems(rd.items, room_id)
    IN  IF rd.raised THEN Raised(f)
        ELSE IF Len(new_rooms) = Len(rd.items)
             THEN Returned(f, None, FALSE, FALSE)
             ELSE Returned(FileWrite(new_rooms), None, TRUE, TRUE)

RoomsGetCall(f, room_id) ==
    LET rd == FileRead(f)
    IN  IF rd.raised THEN Raised(f)
        ELSE Returned(f, RoomsGet(rd.items, room_id),
                      RoomsGet(rd.items, room_id) # None, FALSE)

StudentsCreateCall(f, name, room) ==
    LET rd == FileRead(f)
    IN  IF rd.raised THEN Raised(f)
        ELSE Returned(FileWrite(StudentsCreateItems(rd.items, name, room)),
                      Some(Student(StudentsCreateRecord(rd.items, name, room))),
                      TRUE, TRUE)

\* mutant: the write moved out of the loop, done whether or not the id was found
StudentsUpdateCallAlwaysWrites(f, student_id, name, room) ==
    LET rd == FileRead(f)
        new == StudentsUpdateItems(rd.items, student_id, name, room)
    IN  IF rd.raised THEN Raised(f)
        ELSE Returned(FileWrite(new), StudentsGet(new, student_id),
                      FirstIndex(rd.items, student_id) # 0, TRUE)

StudentsUpdateCall(f, student_id, name, room) ==
    LET rd == FileRead(f)
        new == StudentsUpdateItems(rd.items, student_id, name, room)
    IN  IF rd.raised THEN Raised(f)
        ELSE IF FirstIndex(rd.items, student_id) = 0
             THEN Returned(f, None, FALSE, FALSE)
             ELSE Returned(FileWrite(new), StudentsGet(new, student_id), TRUE, TRUE)

\* mutant: the two arguments of move passed to update in the wrong places
StudentsMoveCallSwapped(f, student_id, to_room_id) ==
    StudentsUpdateCall(f, to_room_id, None, Some(student_id))

StudentsMoveCall(f, student_id, to_room_id) ==
    StudentsUpdateCall(f, student_id, None, Some(to_room_id))

StudentsDeleteCall(f, student_id) ==
    LET rd == FileRead(f)
        new_students == StudentsDeleteItems(rd.items, student_id)
    IN  IF rd.raised THEN Raised(f)
        ELSE IF Len(new_students) = Len(rd.items)
             THEN Returned(f, None, FALSE, FALSE)
             ELSE Returned(FileWrite(new_students), None, TRUE, TRUE)

StudentsGetCall(f, student_id) ==
    LET rd == FileRead(f)
    IN  IF rd.raised THEN Raised(f)
        ELSE Returned(f, StudentsGet(rd.items, student_id),
                      StudentsGet(rd.items, student_id) # None, FALSE)

\* JsonRoomsRepository.list()
RoomsListCall(f) ==
    LET rd == FileRead(f)
    IN  IF rd.raised THEN Raised(f)
        ELSE Returned(f, RoomsList(rd.items), TRUE, FALSE)

\* JsonStudentsRepository.list(ids_in=..., room_in=...)
StudentsListCall(f, ids_in, room_in) ==
    LET rd == FileRead(f)
    IN  IF rd.raised THEN Raised(f)
        ELSE Returned(f, StudentsList(rd.items, ids_in, room_in), TRUE, FALSE)

----------------------------------------------------------------------------
(* Sequential use: a caller holds one repository object, JsonRoomsRepository *)
(* or JsonStudentsRepository, and calls its methods one at a time.  The     *)
(* object reads and writes only the file at its own file_path.              *)

NoCall ==
    [op |-> "none", coll |-> "none", id |-> 0, name |-> None, room |-> None,
     ret |-> None, ok |-> FALSE, raised |-> FALSE, wrote |-> FALSE,
     pre |-> FileMissing, other |-> FileMissing]

\* id, name, room: the arguments (None = not passed); pre: the file before;
\* other: the file of the other collection before
Call(op, coll, id, name, room, pre, res) ==
    [op |-> op, coll |-> coll, id |-> id, name |-> name, room |-> room,
     ret |-> res.ret, ok |-> res.ok, raised |-> res.raised,
     wrote |-> res.wrote, pre |-> pre,
     other |-> IF coll = "rooms" THEN studentsFile ELSE roomsFile]

\* ids handed out by create so far
Issued(coll, res) ==
    IF res.raised THEN createdIds
    ELSE [createdIds EXCEPT ![coll] = @ \cup {res.ret[1].id}]

\* input/rooms.json and input/students.json as shipped: not sorted by id
SeedRooms == <<[id |-> 2, name |-> "a"], [id |-> 0, name |-> "b"]>>

SeedStudents ==
    <<[id |-> 2, name |-> "a", room |-> 2, extra |-> SomeExtra],
      [id |-> 1, name |-> "b", room |-> 0, extra |-> SomeExtra]>>

InitRoomsFiles == {FileMissing, FileCorrupt, FileOk(<<>>), FileOk(SeedRooms)}

InitStudentsFiles == {FileMissing, FileCorrupt, FileOk(<<>>), FileOk(SeedStudents)}

NoProcs == [p \in {} |-> "idle"]

Init ==
    /\ \/ /\ repo = "rooms"
          /\ roomsFile \in InitRoomsFiles
          /\ studentsFile = FileOk(SeedStudents)
       \/ /\ repo = "students"
          /\ roomsFile = FileOk(SeedRooms)
          /\ studentsFile \in InitStudentsFiles
    /\ last = NoCall
    /\ createdIds = [rooms |-> {}, students |-> {}]
    /\ pc = NoProcs
    /\ loc = NoProcs

\* the id create would assign stays within the model's bound
CanCreate(f, NextId(_)) ==
    FileRead(f).raised \/ NextId(FileRead(f).items) <= MaxId

RoomsCreate ==
    /\ repo = "rooms"
    /\ \E name \in Names :
        LET res == RoomsCreateCall(roomsFile, name)
        IN  /\ CanCreate(roomsFile, RoomsNextId)
            /\ roomsFile' = res.file
            /\ last' = Call("create", "rooms", 0, Some(name), None, roomsFile, res)
            /\ createdIds' = Issued("rooms", res)
            /\ UNCHANGED <<repo, studentsFile, pc, loc>>

RoomsUpdate ==
    /\ repo = "rooms"
    /\ \E room_id \in Ids, name \in Names :
        LET res == RoomsUpdateCall(roomsFile, room_id, name)
        IN  /\ roomsFile' = res.file
            /\ last' = Call("update", "rooms", room_id, Some(name), None, roomsFile, res)
            /\ UNCHANGED <<repo, studentsFile, createdIds, pc, loc>>

RoomsDelete ==
    /\ repo = "rooms"
    /\ \E room_id \in Ids :
        LET res == RoomsDeleteCall(roomsFile, room_id)
        IN  /\ roomsFile' = res.file
            /\ last' = Call("delete", "rooms", room_id, None, None, roomsFile, res)
            /\ UNCHANGED <<repo, studentsFile, createdIds, pc, loc>>

StudentsCreate ==
    /\ repo = "students"
    /\ \E name \in Names, room \in RoomRefs :
        LET res == StudentsCreateCall(studentsFile, name, room)
        IN  /\ CanCreate(studentsFile, StudentsNextId)
            /\ studentsFile' = res.file
            /\ last' = Call("create", "students", 0, Some(name), Some(room), studentsFile, res)
            /\ createdIds' = Issued("students", res)
            /\ UNCHANGED <<repo, roomsFile, pc, loc>>

StudentsUpdate ==
    /\ repo = "students"
    /\ \E student_id \in Ids, name \in {None} \cup {Some(n) : n \in Names},
       room \in {None} \cup {Some(r) : r \in RoomRefs} :
        LET res == StudentsUpdateCall(studentsFile, student_id, name, room)
        IN  /\ studentsFile' = res.file
            /\ last' = Call("update", "students", student_id, name, room, studentsFile, res)
            /\ UNCHANGED <<repo, roomsFile, createdIds, pc, loc>>

StudentsMove ==
    /\ repo = "students"
    /\ \E student_id \in Ids, to_room_id \in RoomRefs :
        LET res == StudentsMoveCall(studentsFile, student_id, to_room_id)
        IN  /\ studentsFile' = res.file
            /\ last' = Call("move", "students", student_id, None, Some(to_room_id), studentsFile, res)
            /\ UNCHANGED <<repo, roomsFile, createdIds, pc, loc>>

StudentsDelete ==
    /\ repo = "students"
    /\ \E student_id \in Ids :
        LET res == StudentsDeleteCall(studentsFile, student_id)
        IN  /\ studentsFile' = res.file
            /\ last' = Call("delete", "students", student_id, None, None, studentsFile, res)
            /\ UNCHANGED <<repo, roomsFile, createdIds, pc, loc>>

RoomsGetQuery ==
    /\ repo = "rooms"
    /\ \E room_id \in Ids :
        LET res == RoomsGetCall(roomsFile, room_id)
        IN  /\ last' = Call("get", "rooms", room_id, None, None, roomsFile, res)
            /\ UNCHANGED <<repo, roomsFile, studentsFile, createdIds, pc, loc>>

RoomsListQuery ==
    /\ repo = "rooms"
    /\ LET res == RoomsListCall(roomsFile)
       IN  /\ last' = Call("list", "rooms", 0, None, None, roomsFile, res)
           /\ UNCHANGED <<repo, roomsFile, studentsFile, createdIds, pc, loc>>

StudentsGetQuery ==
    /\ repo = "students"
    /\ \E student_id \in Ids :
        LET res == StudentsGetCall(studentsFile, student_id)
        IN  /\ last' = Call("get", "students", student_id, None, None, studentsFile, res)
            /\ UNCHANGED <<repo, roomsFile, studentsFile, createdIds, pc, loc>>

\* list() without filters; the filters are exercised by SpecQuery
StudentsListQuery ==
    /\ repo = "students"
    /\ LET res == StudentsListCall(studentsFile, NoFilter, NoFilter)
       IN  /\ last' = Call("list", "students", 0, None, None, studentsFile, res)
           /\ UNCHANGED <<repo, roomsFile, studentsFile, createdIds, pc, loc>>

Next ==
    \/ RoomsCreate
    \/ RoomsUpdate
    \/ RoomsDelete
    \/ RoomsGetQuery
    \/ RoomsListQuery
    \/ StudentsCreate
    \/ StudentsUpdate
    \/ StudentsMove
    \/ StudentsDelete
    \/ StudentsGetQuery
    \/ StudentsListQuery

Spec == Init /\ [][Next]_vars

----------------------------------------------------------------------------
(* Queries: the student list with its filters, the list handler with its    *)
(* query parameters, and the combined view, over files of any content.      *)
(* A query changes no file, so its result does not depend on the queries    *)
(* made before it: each behaviour makes one query on its input.             *)

SeqsUpTo(S, n) == UNION {[1 .. k -> S] : k \in 0 .. n}

\* records a hand-written input file may hold: ids and rooms may repeat, and
\* room 3 is the id of no room
QueryStudents ==
    { [id |-> 1, name |-> "a", room |-> 0, extra |-> NoExtra],
      [id |-> 2, name |-> "b", room |-> 0, extra |-> SomeExtra],
      [id |-> 2, name |-> "a", room |-> 2, extra |-> NoExtra],
      [id |-> 1, name |-> "b", room |-> 3, extra |-> SomeExtra] }

QueryRooms ==
    { [id |-> 0, name |-> "a"], [id |-> 2, name |-> "a"], [id |-> 2, name |-> "b"] }

QueryStudentsFiles ==
    {FileMissing, FileCorrupt} \cup {FileOk(q) : q \in SeqsUpTo(QueryStudents, MaxLen)}

QueryRoomsFiles ==
    {FileMissing, FileCorrupt} \cup {FileOk(q) : q \in SeqsUpTo(QueryRooms, MaxLen)}

IdFilters == {NoFilter} \cup {FilterOf(v) : v \in SeqsUpTo({1, 2}, MaxLen)}

RoomFilters == {NoFilter} \cup {FilterOf(v) : v \in SeqsUpTo({0, 2}, MaxLen)}

Params ==
    {NoParam} \cup {ParamOf(t) : t \in SeqsUpTo({"", "2", "x"}, MaxLen) \ {<<>>}}

InitQuery ==
    /\ \/ /\ repo = "students"
          /\ roomsFile = FileOk(SeedRooms)
          /\ studentsFile \in QueryStudentsFiles
       \/ /\ repo = "combined"
          /\ roomsFile \in QueryRoomsFiles
          /\ studentsFile \in QueryStudentsFiles
    /\ last = NoCall
    /\ createdIds = [rooms |-> {}, students |-> {}]
    /\ pc = NoProcs
    /\ loc = NoProcs

StudentsRepoList ==
    /\ repo = "students"
    /\ last = NoCall
    /\ \E ids_in \in IdFilters, room_in \in RoomFilters :
        LET res == StudentsListCall(studentsFile, ids_in, room_in)
        IN  /\ last' = [op |-> "list", coll |-> "students", ids_in |-> ids_in,
                        room_in |-> room_in, raised |-> res.raised, ret |-> res.ret]
            /\ UNCHANGED <<repo, roomsFile, studentsFile, createdIds, pc, loc>>

\* StudentViewSet.list
StudentViewSetList ==
    /\ repo = "students"
    /\ last = NoCall
    /\ \E ids_param \in Params, room_param \in Params :
        LET ids == ParseParam(ids_param)
            rooms == ParseParam(room_param)
            res == IF ids.raised \/ rooms.raised THEN Raised(studentsFile)
                   ELSE StudentsListCall(studentsFile, ids.filter, rooms.filter)
        IN  /\ last' = [op |-> "view_list", coll |-> "students",
                        ids_param |-> ids_param, room_param |-> room_param,
                        ids_in |-> ids.filter, room_in |-> rooms.filter,
                        raised |-> res.raised, ret |-> res.ret]
            /\ UNCHANGED <<repo, roomsFile, studentsFile, createdIds, pc, loc>>

\* CombinedViewSet.list
CombinedViewSetList ==
    /\ repo = "combined"
    /\ last = NoCall
    /\ LET rooms == LoaderLoad(roomsFile)
           students == LoaderLoad(studentsFile)
           raised == rooms.raised \/ students.raised
       IN  /\ last' = [op |-> "combine", coll |-> "combined", raised |-> raised,
                        ret |-> IF raised THEN <<>>
                                ELSE Combine(rooms.items, students.items)]
           /\ UNCHANGED <<repo, roomsFile, studentsFile, createdIds, pc, loc>>

NextQuery ==
    \/ StudentsRepoList
    \/ StudentViewSetList
    \/ CombinedViewSetList

SpecQuery == InitQuery /\ [][NextQuery]_vars

----------------------------------------------------------------------------
(* Request handlers: RoomViewSet and StudentViewSet over the two module-    *)
(* level repositories, one request served at a time.  A handler is a        *)
(* function of the two files and the request: [code: the response, rooms,   *)
(* students: the files afterwards].  An error response carries its "code";  *)
(* a RepositoryError is caught by no handler and ends the request           *)
(* ("server_error").                                                        *)

Response(code, rooms, students) ==
    [code |-> code, rooms |-> rooms, students |-> students]

\* request bodies: one the serializer rejects, or its validated_data
InvalidBody == [valid |-> FALSE, name |-> "", room |-> 0]

BodyNames == {"b"}

RoomBodies == {InvalidBody} \cup {[valid |-> TRUE, name |-> n, room |-> 0] : n \in BodyNames}

StudentBodies ==
    {InvalidBody} \cup {[valid |-> TRUE, name |-> n, room |-> r] : n \in BodyNames, r \in RoomRefs}

MoveBodies == {InvalidBody} \cup {[valid |-> TRUE, name |-> "", room |-> r] : r \in RoomRefs}

RoomViewSetCreate(rooms, students, body) ==
    LET created == RoomsCreateCall(rooms, body.name)
    IN  IF ~body.valid THEN Response("validation_error", rooms, students)
        ELSE IF created.raised THEN Response("server_error", rooms, students)
        ELSE Response("created", created.file, students)

RoomViewSetUpdate(rooms, students, room_id, body) ==
    LET updated == RoomsUpdateCall(rooms, room_id, body.name)
    IN  IF ~body.valid THEN Response("validation_error", rooms, students)
        ELSE IF updated.raised THEN Response("server_error", rooms, students)
        ELSE IF updated.ret = None THEN Response("not_found", updated.file, students)
        ELSE Response("ok", updated.file, students)

\* mutant: destroy also removes the students of the room (a cascade)
RoomViewSetDestroyCascade(rooms, students, room_id) ==
    LET deleted == RoomsDeleteCall(rooms, room_id)
        Elsewhere(s) == s.room # room_id
    IN  IF deleted.raised THEN Response("server_error", rooms, students)
        ELSE IF ~deleted.ok THEN Response("not_found", deleted.file, students)
        ELSE Response("no_content", deleted.file,
                      FileWrite(Filter(FileRead(students).items, Elsewhere)))

RoomViewSetDestroy(rooms, students, room_id) ==
    LET deleted == RoomsDeleteCall(rooms, room_id)
    IN  IF deleted.raised THEN Response("server_error", rooms, students)
        ELSE IF ~deleted.ok THEN Response("not_found", deleted.file, students)
        ELSE Response("no_content", deleted.file, students)

\* mutant: create without the rooms_repo.get test
StudentViewSetCreateUnchecked(rooms, students, body) ==
    LET created == StudentsCreateCall(students, body.name, body.room)
    IN  IF ~body.valid THEN Response("validation_error", rooms, students)
        ELSE IF created.raised THEN Response("server_error", rooms, students)
        ELSE Response("created", rooms, created.file)

StudentViewSetCreate(rooms, students, body) ==
    LET room == RoomsGetCall(rooms, body.room)
        created == StudentsCreateCall(students, body.name, body.room)
    IN  IF ~body.valid THEN Response("validation_error", rooms, students)
        ELSE IF room.raised THEN Response("server_error", rooms, students)
        ELSE IF room.ret = None THEN Response("room_not_found", rooms, students)
        ELSE IF created.raised THEN Response("server_error", rooms, students)
        ELSE Response("created", rooms, created.file)

\* mutant: update without the rooms_repo.get test
StudentViewSetUpdateUnchecked(rooms, students, student_id, body) ==
    LET updated == StudentsUpdateCall(students, student_id, Some(body.name), Some(body.room))
    IN  IF ~body.valid THEN Response("validation_error", rooms, students)
        ELSE IF updated.raised THEN Response("server_error", rooms, students)
        ELSE IF updated.ret = None THEN Response("not_found", rooms, updated.file)
        ELSE Response("ok", rooms, updated.file)

\* mutant: update looks the student up before the room, as move does
StudentViewSetUpdateStudentFirst(rooms, students, student_id, body) ==
    LET student == StudentsGetCall(students, student_id)
        room == RoomsGetCall(rooms, body.room)
        updated == StudentsUpdateCall(students, student_id, Some(body.name), Some(body.room))
    IN  IF ~body.valid THEN Response("validation_error", rooms, students)
        ELSE IF student.raised THEN Response("server_error", rooms, students)
        ELSE IF student.ret = None THEN Response("not_found", rooms, students)
        ELSE IF room.raised THEN Response("server_error", rooms, students)
        ELSE IF room.ret = None THEN Response("room_not_found", rooms, students)
        ELSE IF updated.raised THEN Response("server_error", rooms, students)
        ELSE Response("ok", rooms, updated.file)

StudentViewSetUpdate(rooms, students, student_id, body) ==
    LET room == RoomsGetCall(rooms, body.room)
        updated == StudentsUpdateCall(students, student_id, Some(body.name), Some(body.room))
    IN  IF ~body.valid THEN Response("validation_error", rooms, students)
        ELSE IF room.raised THEN Response("server_error", rooms, students)
        ELSE IF room.ret = None THEN Response("room_not_found", rooms, students)
        ELSE IF updated.raised THEN Response("server_error", rooms, students)
        ELSE IF updated.ret = None THEN Response("not_found", rooms, updated.file)
        ELSE Response("ok", rooms, updated.file)

StudentViewSetDestroy(rooms, students, student_id) ==
    LET deleted == StudentsDeleteCall(students, student_id)
    IN  IF deleted.raised THEN Response("server_error", rooms, students)
        ELSE IF ~deleted.ok THEN Response("not_found", rooms, deleted.file)
        ELSE Response("no_content", rooms, deleted.file)

\* move looks the student up before it validates the body and the room
StudentViewSetMove(rooms, students, student_id, body) ==
    LET student == StudentsGetCall(students, student_id)
        room == RoomsGetCall(rooms, body.room)
        moved == StudentsMoveCall(students, student_id, body.room)
    IN  IF student.raised THEN Response("server_error", rooms, students)
        ELSE IF student.ret = None THEN Response("not_found", rooms, students)
        ELSE IF ~body.valid THEN Response("validation_error", rooms, students)
        ELSE IF room.raised THEN Response("server_error", rooms, students)
        ELSE IF room.ret = None THEN Response("room_not_found", rooms, students)
        ELSE IF moved.raised THEN Response("server_error", rooms, students)
        ELSE Response("ok", rooms, moved.file)

\* a request served: the handler, the pk of the URL, the body, the response
Request(op, coll, id, body, res) ==
    [op |-> op, coll |-> coll, id |-> id, body |-> body, code |-> res.code]

Served(res) ==
    /\ roomsFile' = res.rooms
    /\ studentsFile' = res.students
    /\ UNCHANGED <<repo, createdIds, pc, loc>>

ViewFiles ==
    { <<FileOk(SeedRooms), FileOk(SeedStudents)>>,
      <<FileMissing, FileMissing>>,
      <<FileCorrupt, FileOk(SeedStudents)>>,
      <<FileOk(SeedRooms), FileCorrupt>> }

InitView ==
    /\ repo = "views"
    /\ \E files \in ViewFiles :
          roomsFile = files[1] /\ studentsFile = files[2]
    /\ last = NoCall
    /\ createdIds = [rooms |-> {}, students |-> {}]
    /\ pc = NoProcs
    /\ loc = NoProcs

RoomCreateRequest ==
    \E body \in RoomBodies :
        LET res == RoomViewSetCreate(roomsFile, studentsFile, body)
        IN  /\ CanCreate(roomsFile, RoomsNextId)
            /\ last' = Request("create", "rooms", 0, body, res)
            /\ Served(res)

RoomUpdateRequest ==
    \E room_id \in Ids, body \in RoomBodies :
        LET res == RoomViewSetUpdate(roomsFile, studentsFile, room_id, body)
        IN  /\ last' = Request("update", "rooms", room_id, body, res)
            /\ Served(res)

RoomDestroyRequest ==
    \E room_id \in Ids :
        LET res == RoomViewSetDestroy(roomsFile, studentsFile, room_id)
        IN  /\ last' = Request("destroy", "rooms", room_id, InvalidBody, res)
            /\ Served(res)

StudentCreateRequest ==
    \E body \in StudentBodies :
        LET res == StudentViewSetCreate(roomsFile, studentsFile, body)
        IN  /\ CanCreate(studentsFile, StudentsNextId)
            /\ last' = Request("create", "students", 0, body, res)
            /\ Served(res)

StudentUpdateRequest ==
    \E student_id \in Ids, body \in StudentBodies :
        LET res == StudentViewSetUpdate(roomsFile, studentsFile, student_id, body)
        IN  /\ last' = Request("update", "students", student_id, body, res)
            /\ Served(res)

StudentDestroyRequest ==
    \E student_id \in Ids :
        LET res == StudentViewSetDestroy(roomsFile, studentsFile, student_id)
        IN  /\ last' = Request("destroy", "students", student_id, InvalidBody, res)
            /\ Served(res)

StudentMoveRequest ==
    \E student_id \in Ids, body \in MoveBodies :
        LET res == StudentViewSetMove(roomsFile, studentsFile, student_id, body)
        IN  /\ last' = Request("move", "students", student_id, body, res)
            /\ Served(res)

NextView ==
    \/ RoomCreateRequest
    \/ RoomUpdateRequest
    \/ RoomDestroyRequest
    \/ StudentCreateRequest
    \/ StudentUpdateRequest
    \/ StudentDestroyRequest
    \/ StudentMoveRequest

SpecView == InitView /\ [][NextView]_vars

----------------------------------------------------------------------------
(* A student request racing a room delete.  Two requests are served at the  *)
(* same time: "student", one of StudentViewSet.create / update / move, and  *)
(* "room", one RoomViewSet.destroy.  The student handler is the sequence of *)
(* its repository calls: the student lookup (move only) and validation,     *)
(* rooms_repo.get, then the students_repo call.  A repository call is one   *)
(* step here (the steps inside a call are those of SpecConc); the destroy   *)
(* request, a single rooms_repo.delete, is one step.                        *)

RaceProcs == {"student", "room"}

\* seen: the rooms file rooms_repo.get read; before: the students file the
\* students_repo call read; at: where the student request was when the room
\* request ran
RaceIdle ==
    [op |-> "none", id |-> 0, body |-> InvalidBody, code |-> "none",
     seen |-> FileMissing, before |-> FileMissing, at |-> "none"]

RaceFiles ==
    { <<FileOk(SeedRooms), FileOk(SeedStudents)>>,
      <<FileOk(SeedRooms), FileMissing>>,
      <<FileOk(SeedRooms), FileCorrupt>> }

InitRace ==
    /\ repo = "race"
    /\ \E files \in RaceFiles :
          roomsFile = files[1] /\ studentsFile = files[2]
    /\ last = NoCall
    /\ createdIds = [rooms |-> {}, students |-> {}]
    /\ pc = [p \in RaceProcs |-> "start"]
    /\ loc = [p \in RaceProcs |-> RaceIdle]

\* the handler up to rooms_repo.get: "" = go on, or the code of the response
RaceBegin(students, op, student_id, body) ==
    LET student == StudentsGetCall(students, student_id)
    IN  IF op = "move" /\ student.raised THEN "server_error"
        ELSE IF op = "move" /\ student.ret = None THEN "not_found"
        ELSE IF ~body.valid THEN "validation_error"
        ELSE ""

\* rooms_repo.get(room) and the test on it
RaceCheck(rooms, body) ==
    LET room == RoomsGetCall(rooms, body.room)
    IN  IF room.raised THEN "server_error"
        ELSE IF room.ret = None THEN "room_not_found"
        ELSE ""

\* the response of a handler that ends here
HandlerReturns(code, students) == [code |-> code, students |-> students]

\* mutant: the response of the students_repo call given without its _write
RaceWriteNotPersisted(students, op, student_id, body) ==
    HandlerReturns(IF op = "create" THEN "created" ELSE "ok", students)

\* the students_repo call of the handler and the response made of its result
RaceWrite(students, op, student_id, body) ==
    LET created == StudentsCreateCall(students, body.name, body.room)
        updated == StudentsUpdateCall(students, student_id, Some(body.name), Some(body.room))
        moved == StudentsMoveCall(students, student_id, body.room)
    IN  CASE op = "create" ->
               IF created.raised THEN HandlerReturns("server_error", students)
               ELSE HandlerReturns("created", created.file)
          [] op = "update" ->
               IF updated.raised THEN HandlerReturns("server_error", students)
               ELSE IF updated.ret = None THEN HandlerReturns("not_found", updated.file)
               ELSE HandlerReturns("ok", updated.file)
          [] op = "move" ->
               IF moved.raised THEN HandlerReturns("server_error", students)
               ELSE HandlerReturns("ok", moved.file)

RaceRequests ==
    {[op |-> "create", id |-> 0, body |-> b] : b \in StudentBodies}
    \cup {[op |-> "update", id |-> i, body |-> b] : i \in Ids, b \in StudentBodies}
    \cup {[op |-> "move", id |-> i, body |-> b] : i \in Ids, b \in MoveBodies}

\* the student request arrives: the lookup of move, and validation
StudentBegin ==
    /\ pc["student"] = "start"
    /\ \E req \in RaceRequests :
        LET code == RaceBegin(studentsFile, req.op, req.id, req.body)
        IN  /\ req.op = "create" => CanCreate(studentsFile, StudentsNextId)
            /\ loc' = [loc EXCEPT !["student"] =
                         [@ EXCEPT !.op = req.op, !.id = req.id,
                                   !.body = req.body, !.code = code]]
            /\ pc' = [pc EXCEPT !["student"] = IF code = "" THEN "validated" ELSE "done"]
    /\ UNCHANGED <<repo, roomsFile, studentsFile, last, createdIds>>

\* rooms_repo.get(room): the room-existence check
StudentCheckRoom ==
    /\ pc["student"] = "validated"
    /\ LET code == RaceCheck(roomsFile, loc["student"].body)
       IN  /\ loc' = [loc EXCEPT !["student"] =
                        [@ EXCEPT !.code = code, !.seen = roomsFile]]
           /\ pc' = [pc EXCEPT !["student"] = IF code = "" THEN "checked" ELSE "done"]
    /\ UNCHANGED <<repo, roomsFile, studentsFile, last, createdIds>>

\* students_repo.create / update / move and the response
StudentWrite ==
    /\ pc["student"] = "checked"
    /\ LET me == loc["student"]
           res == RaceWrite(studentsFile, me.op, me.id, me.body)
       IN  /\ studentsFile' = res.students
           /\ loc' = [loc EXCEPT !["student"] =
                        [@ EXCEPT !.code = res.code, !.before = studentsFile]]
           /\ pc' = [pc EXCEPT !["student"] = "done"]
    /\ UNCHANGED <<repo, roomsFile, last, createdIds>>

\* RoomViewSet.destroy, served at any point of the student request
RoomDestroyDuring ==
    /\ pc["room"] = "start"
    /\ \E room_id \in Ids :
        LET res == RoomViewSetDestroy(roomsFile, studentsFile, room_id)
        IN  /\ roomsFile' = res.rooms
            /\ studentsFile' = res.students
            /\ loc' = [loc EXCEPT !["room"] =
                         [@ EXCEPT !.op = "destroy", !.id = room_id,
                                   !.code = res.code, !.at = pc["student"]]]
            /\ pc' = [pc EXCEPT !["room"] = "done"]
    /\ UNCHANGED <<repo, last, createdIds>>

NextRace ==
    \/ StudentBegin
    \/ StudentCheckRoom
    \/ StudentWrite
    \/ RoomDestroyDuring

SpecRace == InitRace /\ [][NextRace]_vars

----------------------------------------------------------------------------
(* Concurrent use: two requests are served at the same time (no lock is     *)
(* taken anywhere), each making one call on the rooms repository.  A call   *)
(* is the steps the code takes on the file: _read (open "r", json.load),    *)
(* then in _write the open with mode "w", which truncates the file, and     *)
(* json.dump with the close, which puts the text there.                     *)

Procs == {"w1", "w2"}

ConcRoomsFiles ==
    { FileMissing, FileOk(<<>>), FileOk(<<[id |-> 1, name |-> "a"]>>),
      FileOk(<<[id |-> 1, name |-> "a"], [id |-> 2, name |-> "b"]>>) }

Idle ==
    [op |-> "none", id |-> 0, name |-> None, snapshot |-> <<>>, items |-> <<>>,
     ret |-> None, ok |-> FALSE, raised |-> FALSE, wrote |-> FALSE,
     before |-> FileMissing, during |-> None, staleBy |-> {}]

InitConc ==
    /\ repo = "rooms"
    /\ roomsFile \in ConcRoomsFiles
    /\ studentsFile = FileOk(SeedStudents)
    /\ last = NoCall
    /\ createdIds = [rooms |-> {}, students |-> {}]
    /\ pc = [p \in Procs |-> "idle"]
    /\ loc = [p \in Procs |-> Idle]

\* the writes in progress on the file: opened with "w" and not yet dumped
WritesInProgress(p) ==
    {[before |-> loc[q].before, after |-> loc[q].items] :
        q \in {r \in Procs \ {p} : pc[r] = "dump"}}

\* p has called op and its _read has returned rd (or raised); items is the
\* list the call goes on to write when write is true
AfterRead(p, op, id, name, rd, items, ret, ok, write) ==
    /\ pc' = [pc EXCEPT ![p] = IF rd.raised \/ ~write THEN "done" ELSE "write"]
    /\ loc' = [loc EXCEPT ![p] =
                 [Idle EXCEPT !.op = op, !.id = id, !.name = name,
                              !.snapshot = rd.items,
                              !.items = IF rd.raised THEN <<>> ELSE items,
                              !.ret = IF rd.raised THEN None ELSE ret,
                              !.ok = ~rd.raised /\ ok,
                              !.raised = rd.raised,
                              !.during = IF WritesInProgress(p) = {} THEN None
                                         ELSE Some(WritesInProgress(p))]]
    /\ UNCHANGED <<repo, roomsFile, studentsFile, last, createdIds>>

ConcCreateRead(p) ==
    /\ pc[p] = "idle"
    /\ CanCreate(roomsFile, RoomsNextId)
    /\ \E name \in Names :
        LET rd == FileRead(roomsFile)
        IN  AfterRead(p, "create", 0, Some(name), rd,
                      RoomsCreateItems(rd.items, name),
                      Some(Room(RoomsCreateRecord(rd.items, name))), TRUE, TRUE)

ConcUpdateRead(p) ==
    /\ pc[p] = "idle"
    /\ \E room_id \in Ids, name \in Names :
        LET rd == FileRead(roomsFile)
            new == RoomsUpdateItems(rd.items, room_id, name)
            found == FirstIndex(rd.items, room_id) # 0
        IN  AfterRead(p, "update", room_id, Some(name), rd, new,
                      IF found THEN RoomsGet(new, room_id) ELSE None, found, found)

ConcDeleteRead(p) ==
    /\ pc[p] = "idle"
    /\ \E room_id \in Ids :
        LET rd == FileRead(roomsFile)
            new_rooms == RoomsDeleteItems(rd.items, room_id)
            removed == Len(new_rooms) # Len(rd.items)
        IN  AfterRead(p, "delete", room_id, None, rd, new_rooms, None, removed, removed)

ConcGetRead(p) ==
    /\ pc[p] = "idle"
    /\ \E room_id \in Ids :
        LET rd == FileRead(roomsFile)
        IN  AfterRead(p, "get", room_id, None, rd, rd.items,
                      RoomsGet(rd.items, room_id),
                      RoomsGet(rd.items, room_id) # None, FALSE)

\* _write, open(self.file_path, "w"): the file is truncated
WriteOpen(p) ==
    /\ pc[p] = "write"
    /\ roomsFile' = FilePartial
    /\ pc' = [pc EXCEPT ![p] = "dump"]
    /\ loc' = [loc EXCEPT ![p].before = roomsFile]
    /\ UNCHANGED <<repo, studentsFile, last, createdIds>>

\* the text of a list takes the more room the more records it has
Longer(items1, items2) == Len(items1) > Len(items2)

\* what the file holds once items are dumped from offset 0 and the file is
\* closed: text another writer put there after this writer's open stays
\* beyond the end of the dumped text
DumpOutcomes(f, items) ==
    CASE f.st = "partial" -> {FileOk(items)}
      [] f.st = "ok"      -> IF Longer(f.items, items) THEN {FileCorrupt}
                             ELSE {FileOk(items)}
      [] OTHER            -> {FileOk(items), FileCorrupt}

\* _write, json.dump and the close of the file
WriteDump(p) ==
    /\ pc[p] = "dump"
    /\ roomsFile' \in DumpOutcomes(roomsFile, loc[p].items)
    /\ pc' = [pc EXCEPT ![p] = "done"]
    /\ loc' = [q \in Procs |->
                 IF q = p THEN [loc[q] EXCEPT !.wrote = TRUE]
                 ELSE [loc[q] EXCEPT
                         !.staleBy = IF pc[q] = "write" THEN @ \cup {p} ELSE @]]
    /\ UNCHANGED <<repo, studentsFile, last, createdIds>>

NextConc ==
    \E p \in Procs :
        \/ ConcCreateRead(p)
        \/ ConcUpdateRead(p)
        \/ ConcDeleteRead(p)
        \/ ConcGetRead(p)
        \/ WriteOpen(p)
        \/ WriteDump(p)

SpecConc == InitConc /\ [][NextConc]_vars

----------------------------------------------------------------------------
(* Properties of sequential use *)

\* the file of the collection a call was made on, and what a read of it gives
FileOf(coll) == IF coll = "rooms" THEN roomsFile ELSE studentsFile

ItemsOf(f) == FileRead(f).items

Distinct(items) ==
    \A i, j \in DOMAIN items : i # j => items[i].id # items[j].id

CreateReturned == last.op = "create" /\ ~last.raised

\* C1 as claimed: each id returned by create is strictly greater than every id
\* create returned before on that collection, deletes included (no reuse).
C1_NoReuse ==
    [][(last'.op = "create" /\ ~last'.raised)
         => \A i \in createdIds[last'.coll] : last'.ret[1].id > i]_vars

\* C1 amended: each id returned by create is strictly greater than every id
\* held by a record of the collection at the time of the call.
C1_AboveStoredIds ==
    CreateReturned =>
        \A i \in IdsOf(ItemsOf(last.pre)) : last.ret[1].id > i

\* a create on a non-empty collection, after an earlier create
C1_Witness ==
    /\ CreateReturned
    /\ ItemsOf(last.pre) # <<>>
    /\ Cardinality(createdIds[last.coll]) >= 2

\* C2: no two records of a persisted collection have the same id, after any
\* sequence of create, update, delete and move calls made one at a time.
C2_UniqueIds ==
    /\ Distinct(ItemsOf(roomsFile))
    /\ Distinct(ItemsOf(studentsFile))

\* a create that followed a delete and left two or more records
C2_Witness ==
    /\ CreateReturned
    /\ Len(ItemsOf(FileOf(last.coll))) >= 2
    /\ \E i \in createdIds[last.coll] : i \notin IdsOf(ItemsOf(FileOf(last.coll)))

\* C8: right after create returned a record, get of its id returns an equal
\* record, which carries the field values passed to create.
C8_GetAfterCreate ==
    CreateReturned =>
        /\ last.ret[1].name = last.name[1]
        /\ IF last.coll = "rooms"
           THEN RoomsGetCall(roomsFile, last.ret[1].id).ret = last.ret
           ELSE /\ StudentsGetCall(studentsFile, last.ret[1].id).ret = last.ret
                /\ last.ret[1].room = last.room[1]

\* a student create on a collection that already held records
C8_Witness ==
    /\ CreateReturned
    /\ last.coll = "students"
    /\ Len(ItemsOf(studentsFile)) >= 2

DeleteOfAbsentId ==
    /\ last.op = "delete"
    /\ ~last.raised
    /\ last.id \notin IdsOf(ItemsOf(last.pre))

\* C9: delete of an id no record has returns false and leaves the persisted
\* collection as it was.
C9_DeleteAbsent ==
    DeleteOfAbsentId =>
        /\ ~last.ok
        /\ ~last.wrote
        /\ FileOf(last.coll) = last.pre

\* a delete of an absent id on a collection that holds records
C9_Witness == DeleteOfAbsentId /\ ItemsOf(last.pre) # <<>>

UpdateOfAbsentId ==
    /\ last.op \in {"update", "move"}
    /\ ~FileRead(last.pre).raised
    /\ last.id \notin IdsOf(ItemsOf(last.pre))

\* C10: update or move of an id no record has returns absent, raises no
\* error and does not write the file.
C10_UpdateAbsent ==
    UpdateOfAbsentId =>
        /\ ~last.raised
        /\ last.ret = None
        /\ ~last.ok
        /\ ~last.wrote
        /\ FileOf(last.coll) = last.pre

\* a move of an absent student id on a collection that holds records
C10_Witness ==
    /\ UpdateOfAbsentId
    /\ last.op = "move"
    /\ ItemsOf(last.pre) # <<>>

CallOnCorruptFile == last.op # "none" /\ last.pre = FileCorrupt

\* C12: when the file holds malformed JSON, each of list, get, create,
\* update, delete and move fails with RepositoryError, returns nothing (never
\* a result as of an empty collection) and leaves the file as it was.
C12_CorruptFileRaises ==
    CallOnCorruptFile =>
        /\ last.raised
        /\ last.ret = None
        /\ ~last.ok
        /\ ~last.wrote
        /\ FileOf(last.coll) = FileCorrupt

\* a create called on a file of malformed JSON
C12_Witness == CallOnCorruptFile /\ last.op = "create"

StudentUpdateOfPresentId ==
    /\ last.op = "update"
    /\ last.coll = "students"
    /\ ~last.raised
    /\ last.id \in IdsOf(ItemsOf(last.pre))

\* the value an optional argument leaves in a field
Supplied(arg, stored) == IF arg = None THEN stored ELSE arg[1]

\* C13: a student update of an existing id overwrites only the fields
\* supplied (name and/or room); an omitted field keeps its stored value, and
\* every other record and the order of the collection are unchanged.
C13_UpdateOnlySupplied ==
    StudentUpdateOfPresentId =>
        LET old == ItemsOf(last.pre)
            new == ItemsOf(studentsFile)
        IN  /\ Len(new) = Len(old)
            /\ \A i \in DOMAIN old :
                  IF old[i].id = last.id
                  THEN /\ new[i].id = old[i].id
                       /\ new[i].name = Supplied(last.name, old[i].name)
                       /\ new[i].room = Supplied(last.room, old[i].room)
                  ELSE new[i] = old[i]

\* an update that supplies a new name only, on a collection of two records
C13_Witness ==
    /\ StudentUpdateOfPresentId
    /\ last.name # None /\ last.room = None
    /\ Len(ItemsOf(last.pre)) >= 2
    /\ studentsFile # last.pre

MoveCalled == last.op = "move" /\ ~FileRead(last.pre).raised

\* C14: move(id, to_room_id) returns what update(id, room=to_room_id)
\* returns and leaves the collection that update leaves: for an existing
\* student only the room changes and the name is kept; for a missing id it
\* returns absent.
C14_MoveIsUpdateOfRoom ==
    MoveCalled =>
        LET upd == StudentsUpdateCall(last.pre, last.id, None, last.room)
            old == ItemsOf(last.pre)
            new == ItemsOf(studentsFile)
        IN  /\ studentsFile = upd.file
            /\ last.ret = upd.ret
            /\ last.raised = upd.raised
            /\ Len(new) = Len(old)
            /\ \A i \in DOMAIN old :
                  IF old[i].id = last.id
                  THEN /\ new[i] = [old[i] EXCEPT !.room = last.room[1]]
                       /\ last.ret = Some(Student(new[i]))
                  ELSE new[i] = old[i]
            /\ last.id \notin IdsOf(old) => last.ret = None

\* a move of an existing student to another room
C14_Witness ==
    /\ MoveCalled
    /\ last.ret # None
    /\ studentsFile # last.pre

StudentsMutation ==
    /\ last.coll = "students"
    /\ last.op \in {"create", "update", "move", "delete"}
    /\ ~last.raised

\* C17: after a student create, update, move or delete every record that
\* remains carries the extra keys and values (sex, birthday, ...) it had
\* before, the record update or move targeted included.
C17_ExtraFieldsKept ==
    StudentsMutation =>
        LET old == ItemsOf(last.pre)
            new == ItemsOf(studentsFile)
        IN  \A j \in DOMAIN new, i \in DOMAIN old :
                old[i].id = new[j].id => new[j].extra = old[i].extra

\* an update that changed a record holding extra keys
C17_Witness ==
    /\ StudentsMutation
    /\ last.op = "update"
    /\ studentsFile # last.pre
    /\ \E i \in DOMAIN ItemsOf(last.pre) :
          /\ ItemsOf(last.pre)[i].id = last.id
          /\ ItemsOf(last.pre)[i].extra = SomeExtra

\* what list() returns on the file of a collection
ListOf(coll, f) ==
    IF coll = "rooms" THEN RoomsListCall(f).ret
    ELSE StudentsListCall(f, NoFilter, NoFilter).ret

\* C18: create gives the new record the id 1 + the greatest id present (1 on
\* an empty collection), appends it as the last element and leaves the
\* records already there and their order unchanged: list after create is
\* list before create followed by the new record.
C18_CreateAppends ==
    CreateReturned =>
        LET old == ItemsOf(last.pre)
            new == ItemsOf(FileOf(last.coll))
            id == last.ret[1].id
        IN  /\ old = <<>> => id = 1
            /\ old # <<>> => (id - 1) \in IdsOf(old)
            /\ \A i \in IdsOf(old) : i < id
            /\ Len(new) = Len(old) + 1
            /\ SubSeq(new, 1, Len(old)) = old
            /\ new[Len(new)].id = id
            /\ new[Len(new)].name = last.name[1]
            /\ ListOf(last.coll, FileOf(last.coll))
                 = ListOf(last.coll, last.pre) \o <<last.ret[1]>>

\* a room create on two records whose ids are not 1 and 2, so that the new id
\* differs from the number of records plus one
C18_Witness ==
    /\ CreateReturned
    /\ last.coll = "rooms"
    /\ Len(ItemsOf(last.pre)) >= 2
    /\ last.ret[1].id # Len(ItemsOf(last.pre)) + 1

DeleteOfPresentId ==
    /\ last.op = "delete"
    /\ ~last.raised
    /\ last.id \in IdsOf(ItemsOf(last.pre))

\* get(id) on the file of a collection
GetOf(coll, f, id) ==
    IF coll = "rooms" THEN RoomsGetCall(f, id) ELSE StudentsGetCall(f, id)

\* C19: delete of an id some record has returns true; afterwards get of that
\* id returns absent and the collection is the previous one without the
\* records of that id, the others unchanged and in the same relative order.
C19_DeletePresent ==
    DeleteOfPresentId =>
        LET old == ItemsOf(last.pre)
            new == ItemsOf(FileOf(last.coll))
            Other(r) == r.id # last.id
        IN  /\ last.ok
            /\ last.wrote
            /\ GetOf(last.coll, FileOf(last.coll), last.id).ret = None
            /\ ~GetOf(last.coll, FileOf(last.coll), last.id).raised
            /\ new = SelectSeq(old, Other)

\* a student delete that removed the first of two records
C19_Witness ==
    /\ DeleteOfPresentId
    /\ last.coll = "students"
    /\ Len(ItemsOf(last.pre)) >= 2
    /\ ItemsOf(last.pre)[1].id = last.id

RoomUpdateOfPresentId ==
    /\ last.op = "update"
    /\ last.coll = "rooms"
    /\ ~last.raised
    /\ last.id \in IdsOf(ItemsOf(last.pre))

\* C20: a room update of an existing id replaces only the name, in place:
\* the id and position of the room, every other room and the student
\* collection are unchanged, and the Room returned carries the new name.
C20_RoomUpdateInPlace ==
    RoomUpdateOfPresentId =>
        LET old == ItemsOf(last.pre)
            new == ItemsOf(roomsFile)
        IN  /\ Len(new) = Len(old)
            /\ \A i \in DOMAIN old :
                  IF old[i].id = last.id
                  THEN new[i] = [id |-> old[i].id, name |-> last.name[1]]
                  ELSE new[i] = old[i]
            /\ studentsFile = last.other
            /\ last.ret = Some([id |-> last.id, name |-> last.name[1]])

\* the first of two rooms renamed, while students refer to it
C20_Witness ==
    /\ RoomUpdateOfPresentId
    /\ Len(ItemsOf(last.pre)) >= 2
    /\ ItemsOf(last.pre)[1].id = last.id
    /\ ItemsOf(last.pre)[1].name # last.name[1]
    /\ \E i \in DOMAIN ItemsOf(studentsFile) : ItemsOf(studentsFile)[i].room = last.id

----------------------------------------------------------------------------
(* Properties of the queries *)

ListReturned == last.op = "list" /\ ~last.raised

\* the students of the file that pass both filters, in file order
Matching(students, ids_in, room_in) ==
    LET Both(s) == /\ ids_in.given => \E i \in DOMAIN ids_in.vals : ids_in.vals[i] = s.id
                   /\ room_in.given => \E i \in DOMAIN room_in.vals : room_in.vals[i] = s.room
        kept == SelectSeq(students, Both)
    IN  [i \in DOMAIN kept |-> [id |-> kept[i].id, name |-> kept[i].name, room |-> kept[i].room]]

\* C5: list returns exactly the students whose id is in ids_filter (when
\* given) and whose room is in room_filter (when given), in file order; an
\* absent filter restricts nothing.
C5_ListFilters ==
    ListReturned =>
        last.ret = Matching(ItemsOf(studentsFile), last.ids_in, last.room_in)

\* both filters given, and they keep some students and drop others
C5_Witness ==
    /\ ListReturned
    /\ last.ids_in.given /\ last.room_in.given
    /\ last.ret # <<>>
    /\ Len(last.ret) < Len(ItemsOf(studentsFile))

AllStudents == Matching(ItemsOf(studentsFile), NoFilter, NoFilter)

EmptyFilter(f) == f.given /\ f.vals = <<>>

\* C6 as claimed: list with an empty filter (an empty set of ids and/or an
\* empty set of rooms) returns the unfiltered list of all students.
C6_EmptyFilterUnfiltered ==
    ( /\ ListReturned
      /\ EmptyFilter(last.ids_in) \/ EmptyFilter(last.room_in)
      /\ ~last.ids_in.given \/ EmptyFilter(last.ids_in)
      /\ ~last.room_in.given \/ EmptyFilter(last.room_in) )
    => last.ret = AllStudents

\* C6 amended: list with both filters absent returns the unfiltered list (at
\* the handler: each query parameter missing or the empty string); a filter
\* that is given but empty returns no student.
C6_AbsentFilterUnfiltered ==
    /\ ( ListReturned /\ ~last.ids_in.given /\ ~last.room_in.given )
         => last.ret = AllStudents
    /\ ( ListReturned /\ (EmptyFilter(last.ids_in) \/ EmptyFilter(last.room_in)) )
         => last.ret = <<>>
    /\ ( /\ last.op = "view_list"
         /\ last.ids_param \in {NoParam, ParamOf(<<"">>)}
         /\ last.room_param \in {NoParam, ParamOf(<<"">>)}
         /\ ~FileRead(studentsFile).raised )
         => ~last.raised /\ last.ret = AllStudents

\* an empty filter given on a collection that holds students
C6_Witness ==
    /\ ListReturned
    /\ EmptyFilter(last.ids_in)
    /\ ~last.room_in.given
    /\ ItemsOf(studentsFile) # <<>>

CombineReturned == last.op = "combine" /\ ~last.raised

\* {id, name} of the students of room room_id, in student input order
StudentsOfRoom(students, room_id) ==
    LET InRoom(s) == s.room = room_id
        kept == SelectSeq(students, InRoom)
    IN  [i \in DOMAIN kept |-> [id |-> kept[i].id, name |-> kept[i].name]]

\* one entry per room, in room input order, each with its own students
OneEntryPerRoom(rooms, students, ret) ==
    /\ Len(ret) = Len(rooms)
    /\ \A i \in DOMAIN rooms :
          /\ ret[i].id = rooms[i].id
          /\ ret[i].name = rooms[i].name
          /\ ret[i].students = StudentsOfRoom(students, rooms[i].id)

\* C7 as claimed: for any rooms and students sequences combine returns one
\* entry per room of the rooms sequence, in input order, each holding the
\* students of that room in input order (none for a room without students;
\* a student of no room is in no list).
C7_CombineAnyRooms ==
    CombineReturned =>
        OneEntryPerRoom(roomsFile.items, studentsFile.items, last.ret)

\* C7 amended: the same, for a rooms sequence whose ids are pairwise distinct.
C7_CombineDistinctRooms ==
    ( CombineReturned /\ Distinct(roomsFile.items) ) =>
        OneEntryPerRoom(roomsFile.items, studentsFile.items, last.ret)

\* two rooms, one with a student and one without, and a student of no room
C7_Witness ==
    /\ CombineReturned
    /\ Distinct(roomsFile.items)
    /\ Len(last.ret) = 2
    /\ \E i, j \in DOMAIN last.ret :
          last.ret[i].students # <<>> /\ last.ret[j].students = <<>>
    /\ \E k \in DOMAIN studentsFile.items :
          studentsFile.items[k].room \notin IdsOf(roomsFile.items)

\* C11: every read of a collection whose file is missing yields an empty
\* collection and no error: list returns empty, get returns absent, create
\* assigns id 1, and the loader of the combined view loads an empty list.
C11_MissingFileIsEmpty ==
    /\ ( last.op = "list" /\ studentsFile = FileMissing )
         => ~last.raised /\ last.ret = <<>>
    /\ studentsFile = FileMissing =>
          /\ \A i \in Ids : StudentsGetCall(studentsFile, i) = Returned(FileMissing, None, FALSE, FALSE)
          /\ \A n \in Names, r \in RoomRefs :
                LET res == StudentsCreateCall(studentsFile, n, r)
                IN  ~res.raised /\ res.ret[1].id = 1
    /\ ( last.op = "combine" /\ FileMissing \in {roomsFile, studentsFile} )
         => /\ ~last.raised
            /\ ( ~FileRead(roomsFile).raised /\ ~FileRead(studentsFile).raised )
                 => last.ret = Combine(ItemsOf(roomsFile), ItemsOf(studentsFile))

----------------------------------------------------------------------------
(* Properties of the request handlers *)

\* C15: deleting a room makes no referential check and no cascade: the
\* delete of an existing room succeeds whether or not students refer to it,
\* the student collection is left as it was, and the students of that room
\* keep a room value that resolves to no room.
C15_RoomDeleteNoCascade ==
    [][ ( /\ last'.op = "destroy"
          /\ last'.coll = "rooms"
          /\ last'.id \in IdsOf(ItemsOf(roomsFile)) )
        => /\ last'.code = "no_content"
           /\ studentsFile' = studentsFile
           /\ last'.id \notin IdsOf(ItemsOf(roomsFile'))
           /\ \A i \in DOMAIN ItemsOf(studentsFile) :
                 ItemsOf(studentsFile)[i].room = last'.id
                    => /\ ItemsOf(studentsFile')[i].room = last'.id
                       /\ RoomsGetCall(roomsFile', last'.id).ret = None ]_vars

\* a room deleted while a student refers to it
C15_Witness ==
    /\ last.op = "destroy"
    /\ last.coll = "rooms"
    /\ last.code = "no_content"
    /\ \E i \in DOMAIN ItemsOf(studentsFile) : ItemsOf(studentsFile)[i].room = last.id
    /\ RoomsGetCall(roomsFile, last.id).ret = None

\* the step serves a valid student create, update or move whose room id is
\* the id of no room, both files being readable
UnresolvedTarget ==
    /\ last'.coll = "students"
    /\ last'.op \in {"create", "update", "move"}
    /\ last'.body.valid
    /\ ~FileRead(roomsFile).raised
    /\ ~FileRead(studentsFile).raised
    /\ last'.body.room \notin IdsOf(ItemsOf(roomsFile))

\* C16 as claimed: a student create, update or move whose target room id
\* resolves to no room is rejected with room_not_found before any mutating
\* student-repository operation, so the student collection is unchanged.
C16_RejectedRoomNotFound ==
    [][ UnresolvedTarget
        => /\ last'.code = "room_not_found"
           /\ studentsFile' = studentsFile ]_vars

\* C16 amended: such a request is rejected before any mutating
\* student-repository operation and the student collection is unchanged; the
\* error is room_not_found, except for a move of a student id no record has,
\* which is answered not_found (move looks the student up first).
C16_RejectedBeforeMutation ==
    [][ UnresolvedTarget
        => /\ studentsFile' = studentsFile
           /\ last'.code =
                IF last'.op = "move" /\ last'.id \notin IdsOf(ItemsOf(studentsFile))
                THEN "not_found" ELSE "room_not_found" ]_vars

\* a move of an existing student to a room that was deleted
C16_Witness ==
    /\ last.op = "move"
    /\ last.code = "room_not_found"
    /\ last.id \in IdsOf(ItemsOf(studentsFile))
    /\ ItemsOf(roomsFile) # <<>>
    /\ last.body.room \notin IdsOf(ItemsOf(roomsFile))

\* every student's room is the id of a room
RoomsResolve(rooms, students) ==
    \A i \in DOMAIN ItemsOf(students) :
        ItemsOf(students)[i].room \in IdsOf(ItemsOf(rooms))

\* C21: from a state in which every student's room resolves to a room, any
\* handler request other than a room delete (room create or update, student
\* create, update, move or delete) leads to a state in which every student's
\* room resolves; hence so does any sequence of them, run one at a time.
C21_RoomsStillResolve ==
    [][ ( /\ RoomsResolve(roomsFile, studentsFile)
          /\ ~(last'.op = "destroy" /\ last'.coll = "rooms") )
        => RoomsResolve(roomsFile', studentsFile') ]_vars

\* a student create accepted while two rooms exist, no student dangling
C21_Witness ==
    /\ last.op = "create"
    /\ last.coll = "students"
    /\ last.code = "created"
    /\ Len(ItemsOf(roomsFile)) >= 2
    /\ ItemsOf(studentsFile) # <<>>
    /\ RoomsResolve(roomsFile, studentsFile)

\* the step serves a valid student update for an id no student has, both
\* files being readable
UpdateOfMissingStudent ==
    /\ last'.coll = "students"
    /\ last'.op = "update"
    /\ last'.body.valid
    /\ ~FileRead(roomsFile).raised
    /\ ~FileRead(studentsFile).raised
    /\ last'.id \notin IdsOf(ItemsOf(studentsFile))

\* C23: in the student update handler the room check comes before the
\* student check: a valid update for a student id that does not exist
\* answers room_not_found when the target room does not exist and not_found
\* when it exists; the student collection is unchanged in both cases.
C23_RoomCheckBeforeStudent ==
    [][ UpdateOfMissingStudent
        => /\ studentsFile' = studentsFile
           /\ last'.code =
                IF last'.body.room \in IdsOf(ItemsOf(roomsFile))
                THEN "not_found" ELSE "room_not_found" ]_vars

\* an update of a missing student to a missing room, students being stored
C23_Witness ==
    /\ last.coll = "students"
    /\ last.op = "update"
    /\ last.code = "room_not_found"
    /\ ItemsOf(studentsFile) # <<>>
    /\ last.id \notin IdsOf(ItemsOf(studentsFile))

----------------------------------------------------------------------------
(* Properties of a student request racing a room delete *)

\* the room delete removed the target room after the student request's room
\* check and before its students_repo call; both requests are over
DeleteBetweenCheckAndWrite ==
    /\ pc["student"] = "done"
    /\ pc["room"] = "done"
    /\ loc["room"].at = "checked"
    /\ loc["room"].code = "no_content"
    /\ loc["room"].id = loc["student"].body.room

\* the response and students file of the same request served alone on the
\* rooms file it checked
ServedAlone(me) ==
    CASE me.op = "create" -> StudentViewSetCreate(me.seen, me.before, me.body)
      [] me.op = "update" -> StudentViewSetUpdate(me.seen, me.before, me.id, me.body)
      [] me.op = "move"   -> StudentViewSetMove(me.seen, me.before, me.id, me.body)

\* C22: the room check and the student write are not atomic: when a room
\* delete runs between rooms_repo.get and the students_repo create / update /
\* move, the student request ends as it would have without the delete; one
\* that succeeds has persisted a student whose room exists no more, and no
\* room delete happened after that write.
C22_CheckWriteNotAtomic ==
    DeleteBetweenCheckAndWrite =>
        LET me == loc["student"]
            alone == ServedAlone(me)
            new == ItemsOf(studentsFile)
        IN  /\ me.code = alone.code
            /\ studentsFile = alone.students
            /\ ( /\ ~FileRead(me.before).raised
                 /\ me.op = "create" \/ me.id \in IdsOf(ItemsOf(me.before)) )
               => /\ me.code \in {"created", "ok"}
                  /\ me.body.room \notin IdsOf(ItemsOf(roomsFile))
                  /\ \E i \in DOMAIN new :
                        /\ new[i].room = me.body.room
                        /\ new[i].name = me.body.name \/ me.op = "move"
                        /\ me.op = "create" => i = Len(new)
                        /\ me.op # "create" => new[i].id = me.id

\* a student created in a room deleted between the check and the write
C22_Witness ==
    /\ DeleteBetweenCheckAndWrite
    /\ loc["student"].op = "create"
    /\ loc["student"].code = "created"
    /\ LET new == ItemsOf(studentsFile)
       IN  /\ new # <<>>
           /\ new[Len(new)].room = loc["room"].id
           /\ RoomsGetCall(roomsFile, loc["room"].id).ret = None

----------------------------------------------------------------------------
(* Properties of concurrent use *)

\* the calls of p and q went read, read, write, write: both read the same
\* content, q's write completed after p's read, and p then wrote
ReadReadWriteWrite(p, q) ==
    /\ p # q
    /\ pc[p] = "done" /\ pc[q] = "done"
    /\ loc[p].wrote /\ loc[q].wrote
    /\ q \in loc[p].staleBy
    /\ loc[p].snapshot = loc[q].snapshot

BothCreate(p, q) == loc[p].op = "create" /\ loc[q].op = "create"

\* C3: when two mutating calls go read, read, write, write, no error is
\* raised and the file is what the second writer made of the content it had
\* read, so the first write is gone; two such creates return the same id and
\* the file holds one new record, the second writer's.
C3_LastWriteWins ==
    \A p, q \in Procs :
        ReadReadWriteWrite(p, q) =>
            /\ ~loc[p].raised /\ ~loc[q].raised
            /\ roomsFile = FileOk(loc[p].items)
            /\ BothCreate(p, q) =>
                  /\ loc[p].ret[1].id = loc[q].ret[1].id
                  /\ Len(roomsFile.items) = Len(loc[p].snapshot) + 1
                  /\ Room(roomsFile.items[Len(roomsFile.items)]) = loc[p].ret[1]

\* two creates with different names returned the same id, and the record of
\* the first writer is not in the file
C3_Witness ==
    \E p, q \in Procs :
        /\ ReadReadWriteWrite(p, q)
        /\ BothCreate(p, q)
        /\ loc[p].ret[1].id = loc[q].ret[1].id
        /\ loc[p].ret # loc[q].ret
        /\ \A i \in DOMAIN roomsFile.items : Room(roomsFile.items[i]) # loc[q].ret[1]

\* C4: a read made while a write of the file is in progress returns the
\* complete collection from before that write or the complete collection
\* from after it.
C4_NoPartialRead ==
    \A p \in Procs :
        (loc[p].op # "none" /\ loc[p].during # None) =>
            /\ ~loc[p].raised
            /\ \E w \in loc[p].during[1] :
                  loc[p].snapshot \in {ItemsOf(w.before), w.after}

====
